---- MODULE Spec2Model ----
(***************************************************************************)
(* A model of the marathon dashboard (src/app.py): the filter generator,   *)
(* the cards' render / render_settings methods, the dependent-filter       *)
(* callbacks and the theme callback update_color_scheme.                   *)
(*                                                                         *)
(* Python values are modelled as follows.                                  *)
(*   a string label / a number / a missing value (NaN, None) of a column   *)
(*       [t |-> "s", v |-> k]   [t |-> "n", v |-> k]   [t |-> "na", v |-> 0]*)
(*   the text str(x) of a number x         [t |-> "d", v |-> k]            *)
(*   an optional argument                  <<>> (None) or <<value>>        *)
(*   a list                                a sequence                      *)
(*   a component id (a dict)               a function of its keys          *)
(*   a card id (a string)                  a sequence of characters        *)
(***************************************************************************)
EXTENDS Integers, Sequences, FiniteSets, TLC

VARIABLES
    gf,                \* a call of generate_filter: its arguments and result
    cards,             \* the cards of the canvas, in layout order: id, type, settings
    views,             \* card id -> the rendered output of the card
    nextId,            \* the number of card ids handed out so far
    forceColorScheme,  \* "mantine-provider".forceColorScheme
    queue,             \* the callbacks Dash has scheduled and not yet run
    patched_figures,   \* the output of update_color_scheme, not yet applied
    rendered,          \* the card whose view is the output of render, unpatched
    editor,            \* the settings editor in the drawer, if one is open
    callback,          \* the dependent-field callback that ran in the last step
    sessions           \* the number of times the settings drawer has been opened

vars == <<gf, cards, views, nextId, forceColorScheme, queue, patched_figures,
          rendered, editor, callback, sessions>>

canvasVars == <<cards, views, nextId, forceColorScheme, queue, patched_figures,
                rendered, editor, callback, sessions>>

(***************************************************************************)
(* Bounds of the model.                                                    *)
(***************************************************************************)
MaxLen == 2
MaxVal == 2
MaxCards == 2
MaxIds == 3
NRows == 4
MaxSessions == 1
MaxEdits == 1

(***************************************************************************)
(* Values.                                                                 *)
(***************************************************************************)
S(k) == [t |-> "s", v |-> k]
N(k) == [t |-> "n", v |-> k]
NA == [t |-> "na", v |-> 0]

None == <<>>
Some(x) == <<x>>

Range(s) == {s[i] : i \in DOMAIN s}

(* Python truthiness of an optional list argument: None and [] are falsy *)
Truthy(opt) == opt # None /\ opt[1] # <<>>

(* a or b *)
Or(opt, b) == IF Truthy(opt) THEN opt[1] ELSE b

(***************************************************************************)
(* pandas: Series.dropna, Series.unique, Series.min, Series.max; sorted    *)
(***************************************************************************)
dropna(values) == SelectSeq(values, LAMBDA x : x.t # "na")

(* distinct values in order of first appearance *)
unique(values) ==
    LET first == SelectSeq([i \in 1..Len(values) |-> i],
                           LAMBDA i : \A j \in 1..(i - 1) : values[j] # values[i])
    IN  [k \in 1..Len(first) |-> values[first[k]]]

Least(set) == CHOOSE x \in set : \A y \in set : x.v <= y.v
Greatest(set) == CHOOSE x \in set : \A y \in set : x.v >= y.v

(* the values of a set in increasing order (all of one kind t) *)
SortSet(set) ==
    IF set = {} THEN <<>>
    ELSE LET lo == Least(set)
             hi == Greatest(set)
             vs == SelectSeq([i \in 1..(hi.v - lo.v + 1) |-> lo.v + i - 1],
                             LAMBDA k : [t |-> lo.t, v |-> k] \in set)
         IN  [i \in 1..Len(vs) |-> [t |-> lo.t, v |-> vs[i]]]

(* sorted(list) of a list of distinct values *)
sorted(list) == SortSet(Range(list))

(* Series.min() / Series.max(): NaN on an empty series *)
min(values) == IF values = <<>> THEN NA ELSE Least(Range(values))
max(values) == IF values = <<>> THEN NA ELSE Greatest(Range(values))

(* a - b and a / d on numbers; NaN propagates *)
Minus(a, b) == IF a.t = "na" \/ b.t = "na" THEN NA ELSE N(a.v - b.v)
Div(a, d) == [t |-> a.t, num |-> a.v, den |-> d]

(***************************************************************************)
(* generate_filter                                                         *)
(***************************************************************************)
CategoricalDtypes == {"object", "string", "bool", "category"}

TooManyUnique == 300

(* len(sorted_unique) > 300 *)
TooManyOffByOne(sorted_unique) == Len(sorted_unique) >= TooManyUnique
TooMany(sorted_unique) == Len(sorted_unique) > TooManyUnique

(* (column.max() - column.min()) / 100 *)
MinRangeOfMax(col) == Div(max(col), 100)
MinRange(col) == Div(Minus(max(col), min(col)), 100)

ComponentId(type, id, subid) == [type |-> type, id |-> id] @@ ("sub-id" :> subid)

generate_filter(column, input_id, default_value) ==
    LET col == dropna(column.values)
        card_id == input_id["id"]
        filter_type == input_id["sub-id"]
        fid == ComponentId("card-settings", card_id, filter_type \o "-filter")
    IN  IF column.dtype \in CategoricalDtypes
        THEN LET sorted_unique == sorted(unique(col))
             IN  IF TooMany(sorted_unique)
                 THEN [kind |-> "Text",
                       text |-> "Too many unique values to show filter"]
                 ELSE [kind |-> "CheckboxGroup",
                       id |-> fid,
                       value |-> Or(default_value, sorted_unique),
                       children |-> sorted_unique]
        ELSE [kind |-> "RangeSlider",
              id |-> fid,
              value |-> Or(default_value, <<min(col), max(col)>>),
              min |-> min(col),
              max |-> max(col),
              disabled |-> FALSE,
              minRange |-> MinRange(col)]

(***************************************************************************)
(* The inputs of generate_filter: every column of at most MaxLen values    *)
(* over the labels / numbers 0..MaxVal and the missing value, and columns  *)
(* with TooManyUnique and TooManyUnique + 1 distinct labels.               *)
(***************************************************************************)
Dtypes == {"object", "category", "bool", "float64", "int64"}

Mk(dtype, k) == IF dtype \in CategoricalDtypes THEN S(k) ELSE N(k)

SeqsUpTo(set, n) == UNION {[1..m -> set] : m \in 0..n}

ValuesOf(dtype) ==
    {Mk(dtype, k) : k \in 0..MaxVal} \cup (IF dtype = "int64" THEN {} ELSE {NA})

SmallColumns ==
    UNION { { [dtype |-> d, values |-> vs] : vs \in SeqsUpTo(ValuesOf(d), MaxLen) }
            : d \in Dtypes }

WideColumn(dtype, n, dup) ==
    [dtype |-> dtype,
     values |-> [i \in 1..(n + 2 * dup) |->
                   IF i <= n THEN Mk(dtype, i) ELSE IF i = n + 1 THEN Mk(dtype, 1) ELSE NA]]

WideColumns ==
    { WideColumn("object", n, dup) : n \in {TooManyUnique, TooManyUnique + 1},
                                      dup \in {0, 1} }

Columns == SmallColumns \cup WideColumns

(* the increasing lists of labels 0..MaxVal (the empty list included) *)
LabelLists(dtype) ==
    { SortSet(ls) : ls \in SUBSET {Mk(dtype, k) : k \in 0..MaxVal} }

Ranges == { <<N(lo), N(hi)>> : lo \in 0..MaxVal, hi \in 0..MaxVal }

DefaultValues(column) ==
    {None} \cup
    { Some(d) : d \in IF column.dtype \in CategoricalDtypes
                       THEN LabelLists(column.dtype)
                       ELSE {r \in Ranges : r[1].v <= r[2].v} }

InputIds ==
    { ComponentId("card-settings", <<"a">>, f) : f \in {"x", "y"} }

(***************************************************************************)
(* SpecFilter: generate_filter applied to each input.                      *)
(***************************************************************************)
FilterCalls ==
    UNION { { [column |-> c, input_id |-> i, default_value |-> d, result |-> None] :
                i \in InputIds, d \in DefaultValues(c) } : c \in Columns }

NoCall ==
    [column |-> [dtype |-> "object", values |-> <<>>],
     input_id |-> ComponentId("card-settings", <<"a">>, "x"),
     default_value |-> None, result |-> None]

EmptyCanvas ==
    /\ cards = <<>>
    /\ views = <<>>
    /\ nextId = 0
    /\ forceColorScheme = "light"
    /\ queue = {}
    /\ patched_figures = None
    /\ rendered = None
    /\ editor = None
    /\ callback = None
    /\ sessions = 0

InitFilter == gf \in FilterCalls /\ EmptyCanvas

CallGenerateFilter ==
    /\ gf.result = None
    /\ gf' = [gf EXCEPT !.result =
                 Some(generate_filter(gf.column, gf.input_id, gf.default_value))]
    /\ UNCHANGED canvasVars

NextFilter == CallGenerateFilter

SpecFilter == InitFilter /\ [][NextFilter]_vars

(***************************************************************************)
(* The dataset (data = pd.read_hdf(...)): NRows rows of the four columns    *)
(* the cards name.  The labels of the two categorical columns and the      *)
(* values of the two numeric columns are disjoint.                         *)
(***************************************************************************)
Rows == 1..NRows

data ==
    [minutesPerKM |->
        [dtype |-> "float64",
         values |-> [i \in Rows |-> IF i % 4 = 0 THEN NA ELSE N(i % 3)]],
     ageBand |->
        [dtype |-> "object",
         values |-> [i \in Rows |-> S(20 + (i % 2))]],
     gender |->
        [dtype |-> "object",
         values |-> [i \in Rows |-> S(10 + ((i \div 2) % 2))]],
     overallTimeMinutes |->
        [dtype |-> "float64",
         values |-> [i \in Rows |-> N(5 + (i % 2))]]]

(***************************************************************************)
(* Cards: settings.get, the chart of a card, render.                       *)
(***************************************************************************)
CardTypes == {"RacingCard", "HistogramCard", "HeatMap", "ViolinCard", "HightlightCard"}

(* self.settings.get(key, default) *)
Get(settings, key, default) == IF key \in DOMAIN settings THEN settings[key] ELSE default

(* self.settings.get(key, None) of a list-valued key *)
GetOpt(settings, key) == IF key \in DOMAIN settings THEN Some(settings[key]) ELSE None

FigureId(id) == [type |-> "card-control", id |-> id] @@ ("sub-type" :> "figure")

(* px.<chart>(..., template="mantine_light") and update_layout(margin=...) *)
Figure(traces) ==
    [data |-> traces,
     layout |-> [template |-> "mantine_light",
                 margin |-> [l |-> 0, r |-> 0, t |-> 15, b |-> 0]]]

(* dmc.Card([Text(title), Text(description), dcc.Graph(figure, id)]) *)
ChartCard(id, title, description, traces) ==
    [kind |-> "Card", title |-> title, description |-> description,
     graph |-> Some([id |-> FigureId(id), figure |-> Figure(traces)])]

(* a render that raised: the card shows no output *)
RenderError == [kind |-> "error", graph |-> None]

RacingCard_render(id, settings) ==
    ChartCard(id,
              Get(settings, "title", "Marathon chart"),
              Get(settings, "description", "Groups of people racing"),
              [chart |-> "scatter",
               racers |-> Get(settings, "racers", <<"Average Person">>)])

HistogramCard_render_bins10(id, settings) ==
    LET column == Get(settings, "column", "overallTimeMinutes")
        color == Get(settings, "color", "None")
        nbins == Get(settings, "bins", 10)
    IN  ChartCard(id,
                  Get(settings, "title", "Histogram"),
                  Get(settings, "description",
                      "Histogram of " \o column \o " coloured by " \o color),
                  [chart |-> "histogram", x |-> column, color |-> color,
                   nbins |-> nbins])

HistogramCard_render(id, settings) ==
    LET column == Get(settings, "column", "overallTimeMinutes")
        color == Get(settings, "color", "None")
        nbins == Get(settings, "bins", 20)
    IN  ChartCard(id,
                  Get(settings, "title", "Histogram"),
                  Get(settings, "description",
                      "Histogram of " \o column \o " coloured by " \o color),
                  [chart |-> "histogram", x |-> column, color |-> color,
                   nbins |-> nbins])

ApplyFilterExclusive(rows, col, filter) ==
    IF filter = None THEN [ok |-> TRUE, rows |-> rows]
    ELSE IF data[col].dtype \in CategoricalDtypes
    THEN [ok |-> TRUE,
          rows |-> {r \in rows : data[col].values[r] \in Range(filter[1])}]
    ELSE IF Len(filter[1]) < 2 \/ filter[1][1].t # "n" \/ filter[1][2].t # "n"
    THEN [ok |-> FALSE, rows |-> {}]
    ELSE [ok |-> TRUE,
          rows |-> {r \in rows : /\ data[col].values[r].t = "n"
                                 /\ data[col].values[r].v > filter[1][1].v
                                 /\ data[col].values[r].v < filter[1][2].v}]

(* the rows kept by one filter of HeatMap.render; ok = FALSE when the       *)
(* comparison raises (a range test against a list that is no pair of        *)
(* numbers)                                                                 *)
ApplyFilter(rows, col, filter) ==
    IF filter = None THEN [ok |-> TRUE, rows |-> rows]
    ELSE IF data[col].dtype \in CategoricalDtypes
    THEN [ok |-> TRUE,
          rows |-> {r \in rows : data[col].values[r] \in Range(filter[1])}]
    ELSE IF Len(filter[1]) < 2 \/ filter[1][1].t # "n" \/ filter[1][2].t # "n"
    THEN [ok |-> FALSE, rows |-> {}]
    ELSE [ok |-> TRUE,
          rows |-> {r \in rows : /\ data[col].values[r].t = "n"
                                 /\ data[col].values[r].v >= filter[1][1].v
                                 /\ data[col].values[r].v <= filter[1][2].v}]

HeatMap_render(id, settings) ==
    LET x == Get(settings, "x", "minutesPerKM")
        x_filter == GetOpt(settings, "x-filter")
        y == Get(settings, "y", "ageBand")
        y_filter == GetOpt(settings, "y-filter")
        nbinsx == Get(settings, "nbinsx", 20)
        nbinsy == Get(settings, "nbinsy", 20)
        fx == ApplyFilter(Rows, x, x_filter)
        fy == ApplyFilter(fx.rows, y, y_filter)
    IN  IF ~fx.ok \/ ~fy.ok THEN RenderError
        ELSE ChartCard(id,
                       Get(settings, "title", "Heatmap"),
                       Get(settings, "description",
                           "Heatmap of " \o x \o " vs " \o y),
                       [chart |-> "density_heatmap", filtered_data |-> fy.rows,
                        x |-> x, y |-> y, nbinsx |-> nbinsx, nbinsy |-> nbinsy])

ViolinCard_render(id, settings) ==
    LET x == Get(settings, "x", "ageBand")
        y == Get(settings, "y", "overallTimeMinutes")
    IN  ChartCard(id,
                  Get(settings, "title", "Violin plot"),
                  Get(settings, "description",
                      "Violin plot of " \o y \o " by " \o x),
                  [chart |-> "violin", x |-> x, y |-> y,
                   categoryarray |-> unique(data[x].values)])

NoneV == [t |-> "none", v |-> 0]

(* str(item) : a string is its own text, a number or NaN becomes a text *)
str(item) == IF item.t = "s" THEN item ELSE [t |-> "d", v |-> item.v, of |-> item.t]

HightlightCard_render(id, settings) ==
    LET column_to_summarize == Get(settings, "column", "gender")
        aggregation == Get(settings, "aggregation", "count")
        filter_value == Get(settings, "column-filter", NoneV)
        filtered == IF filter_value # NoneV
                    THEN {r \in Rows : data[column_to_summarize].values[r] = filter_value}
                    ELSE Rows
    IN  [kind |-> "Card",
         suffix |-> Get(settings, "suffix", "Number of participants"),
         highlight_value |-> [agg |-> aggregation, column |-> column_to_summarize,
                              rows |-> filtered],
         icon |-> Get(settings, "icon", "mdi:star"),
         graph |-> None]

render(card) ==
    CASE card.type = "RacingCard" -> RacingCard_render(card.id, card.settings)
      [] card.type = "HistogramCard" -> HistogramCard_render(card.id, card.settings)
      [] card.type = "HeatMap" -> HeatMap_render(card.id, card.settings)
      [] card.type = "ViolinCard" -> ViolinCard_render(card.id, card.settings)
      [] card.type = "HightlightCard" -> HightlightCard_render(card.id, card.settings)

(***************************************************************************)
(* update_color_scheme and the patches it returns.                         *)
(***************************************************************************)
Template(color_scheme) ==
    IF color_scheme = "light" THEN "mantine_light" ELSE "mantine_dark"

(* patched_figure = Patch(); patched_figure["layout"]["template"] = template *)
PatchOfLayout(template) == [path |-> <<"layout">>, value |-> [template |-> template]]
Patch(template) == [path |-> <<"layout", "template">>, value |-> template]

(* for _ in figure_ids: ... patched_figures.append(patched_figure) *)
update_color_scheme_skip_first(color_scheme, figure_ids) ==
    [i \in 1..(Len(figure_ids) - 1) |-> Patch(Template(color_scheme))]
update_color_scheme(color_scheme, figure_ids) ==
    [i \in 1..Len(figure_ids) |-> Patch(Template(color_scheme))]

(* the figure after a Patch is applied to it: the value at the path is      *)
(* assigned, the rest of the figure is kept                                 *)
ApplyPatch(figure, patch) ==
    IF Len(patch.path) = 1
    THEN [figure EXCEPT ![patch.path[1]] = patch.value]
    ELSE [figure EXCEPT ![patch.path[1]][patch.path[2]] = patch.value]

(* State({"type": "card-control", "sub-type": "figure", "id": ALL}, "id"):  *)
(* the ids of the graphs in the layout, in layout order                     *)
Charts == SelectSeq(cards, LAMBDA c : views[c.id].graph # None)
FigureIds == [k \in 1..Len(Charts) |-> views[Charts[k].id].graph[1].id]

(***************************************************************************)
(* The canvas: cards are created, removed, saved with new settings and     *)
(* rendered; the theme is toggled.  Dash runs update_color_scheme when its *)
(* Input changes and when a graph matching its Output is added to the      *)
(* layout; a scheduled callback runs, and its output is applied, before    *)
(* the next user event is handled.                                         *)
(***************************************************************************)
Idle == queue = {} /\ patched_figures = None

CardId(n) == <<"c", ToString(n)>>

Index(id) == CHOOSE i \in DOMAIN cards : cards[i].id = id

RemoveAt(seq, i) == [k \in 1..(Len(seq) - 1) |-> IF k < i THEN seq[k] ELSE seq[k + 1]]

(* the callbacks Dash schedules when the view of a card enters the layout *)
OnNewView(view) == IF view.graph # None THEN {"update_color_scheme"} ELSE {}

CreateCard(type) ==
    /\ Idle
    /\ Len(cards) < MaxCards
    /\ nextId < MaxIds
    /\ LET card == [id |-> CardId(nextId + 1), type |-> type, settings |-> <<>>]
       IN  /\ cards' = Append(cards, card)
           /\ views' = (card.id :> render(card)) @@ views
           /\ queue' = OnNewView(render(card))
           /\ rendered' = Some(card.id)
    /\ nextId' = nextId + 1
    /\ UNCHANGED <<gf, forceColorScheme, patched_figures, editor, callback, sessions>>

RemoveCard(i) ==
    /\ Idle
    /\ i \in DOMAIN cards
    /\ cards' = RemoveAt(cards, i)
    /\ views' = [id \in DOMAIN views \ {cards[i].id} |-> views[id]]
    /\ rendered' = None
    /\ UNCHANGED <<gf, nextId, forceColorScheme, queue, patched_figures, editor, callback, sessions>>

(* the settings of a card are replaced and the card is rendered again *)
SaveSettings(i, settings) ==
    /\ Idle
    /\ i \in DOMAIN cards
    /\ LET card == [cards[i] EXCEPT !.settings = settings]
       IN  /\ cards' = [cards EXCEPT ![i] = card]
           /\ views' = [views EXCEPT ![card.id] = render(card)]
           /\ queue' = OnNewView(render(card))
           /\ rendered' = Some(card.id)
    /\ UNCHANGED <<gf, nextId, forceColorScheme, patched_figures, sessions>>

SettingsChoices(type) ==
    {<<>>} \cup
    CASE type = "RacingCard" -> {("racers" :> <<"Elite">>)}
      [] type = "HistogramCard" -> {("bins" :> 10)}
      [] type = "HeatMap" -> {("x-filter" :> <<N(1), N(2)>>)}
      [] type = "ViolinCard" -> {("x" :> "gender")}
      [] type = "HightlightCard" -> {("aggregation" :> "max")}

EditCard ==
    \E i \in DOMAIN cards : \E settings \in SettingsChoices(cards[i].type) :
        /\ settings # cards[i].settings
        /\ SaveSettings(i, settings)
        /\ UNCHANGED <<editor, callback>>

ToggleTheme ==
    /\ Idle
    /\ forceColorScheme' = IF forceColorScheme = "light" THEN "dark" ELSE "light"
    /\ queue' = {"update_color_scheme"}
    /\ rendered' = None
    /\ UNCHANGED <<gf, cards, views, nextId, patched_figures, editor, callback, sessions>>

UpdateColorScheme ==
    /\ "update_color_scheme" \in queue
    /\ patched_figures' =
          Some([figure_ids |-> FigureIds,
                out |-> update_color_scheme(forceColorScheme, FigureIds)])
    /\ queue' = queue \ {"update_color_scheme"}
    /\ UNCHANGED <<gf, cards, views, nextId, forceColorScheme, rendered, editor, callback, sessions>>

(* the k-th patch is applied to the figure of the k-th matched graph *)
ApplyPatches ==
    /\ patched_figures # None
    /\ LET ids == patched_figures[1].figure_ids
           out == patched_figures[1].out
           Pos(id) == CHOOSE k \in DOMAIN ids : ids[k] = FigureId(id)
       IN  views' = [id \in DOMAIN views |->
                       IF views[id].graph # None
                          /\ \E k \in DOMAIN out : ids[k] = FigureId(id)
                       THEN [views[id] EXCEPT !.graph[1].figure =
                                ApplyPatch(@, out[Pos(id)])]
                       ELSE views[id]]
    /\ patched_figures' = None
    /\ rendered' = None
    /\ UNCHANGED <<gf, cards, nextId, forceColorScheme, queue, editor, callback, sessions>>

Init ==
    /\ gf = NoCall
    /\ cards = <<>>
    /\ views = <<>>
    /\ nextId = 0
    /\ forceColorScheme = "light"
    /\ queue = {"update_color_scheme"}
    /\ patched_figures = None
    /\ rendered = None
    /\ editor = None
    /\ callback = None
    /\ sessions = 0

Next ==
    \/ \E type \in CardTypes : CreateCard(type)
    \/ \E i \in DOMAIN cards : RemoveCard(i)
    \/ EditCard
    \/ ToggleTheme
    \/ UpdateColorScheme
    \/ ApplyPatches

Spec == Init /\ [][Next]_vars

(***************************************************************************)
(* The settings editors (render_settings).  An editor is the card id and   *)
(* its children by place; a child is a component with its id, or the       *)
(* notice generate_filter returned.                                        *)
(***************************************************************************)
SettingsId(id, subid) == ComponentId("card-settings", id, subid)

ColumnNames == <<"minutesPerKM", "ageBand", "gender", "overallTimeMinutes">>

Select(id, value, choices) ==
    [kind |-> "Select", id |-> id, value |-> value, data |-> choices]

NumberInput(id, value) == [kind |-> "NumberInput", id |-> id, value |-> value]

TextInput(id, value) == [kind |-> "TextInput", id |-> id, value |-> value]

HeatMap_render_settings(id, settings) ==
    [x |-> Select(SettingsId(id, "x"), Get(settings, "x", "minutesPerKM"), ColumnNames),
     y |-> Select(SettingsId(id, "y"), Get(settings, "y", "ageBand"), ColumnNames),
     nbinsx |-> NumberInput(SettingsId(id, "nbinsx"), Get(settings, "nbinsx", 20)),
     nbinsy |-> NumberInput(SettingsId(id, "nbinsy"), Get(settings, "nbinsy", 20)),
     title |-> TextInput(SettingsId(id, "title"), Get(settings, "title", "Heatmap")),
     description |-> TextInput(SettingsId(id, "description"),
                               Get(settings, "description", "Heatmap description"))]
    @@ ("x-filter" :> generate_filter(data[Get(settings, "x", "minutesPerKM")],
                                      SettingsId(id, "x"),
                                      GetOpt(settings, "x-filter")))
    @@ ("y-filter" :> generate_filter(data[Get(settings, "y", "ageBand")],
                                      SettingsId(id, "y"),
                                      GetOpt(settings, "y-filter")))

(* [{"label": str(item), "value": str(item)} for item in column.unique()] *)
Choices(column) ==
    LET items == unique(column.values) IN [k \in DOMAIN items |-> str(items[k])]

HightlightCard_render_settings(id, settings) ==
    [column |-> Select(SettingsId(id, "column"), Get(settings, "column", "gender"),
                       ColumnNames),
     aggregation |-> Select(SettingsId(id, "aggregation"),
                            Get(settings, "aggregation", "count"),
                            <<"count", "mean", "sum", "min", "max">>),
     suffix |-> TextInput(SettingsId(id, "suffix"),
                          Get(settings, "suffix", "Number of participants")),
     icon |-> TextInput(SettingsId(id, "icon"), Get(settings, "icon", "mdi:star"))]
    @@ ("column-filter" :> Select(SettingsId(id, "column-filter"),
                                  Get(settings, "column-filter", NoneV),
                                  Choices(data["gender"])))

render_settings(card) ==
    CASE card.type = "HeatMap" -> HeatMap_render_settings(card.id, card.settings)
      [] card.type = "HightlightCard" ->
             HightlightCard_render_settings(card.id, card.settings)

(***************************************************************************)
(* The id of the triggering property as Dash sends it: the JSON text of    *)
(* the component id (keys in order, no blanks), a dot and the property.    *)
(* A text is a sequence of characters; a key with its colon and a sub-id   *)
(* or type (which hold no dot and no quote) are one element each.          *)
(***************************************************************************)
Quote == "\""

stringify_id(id) ==
    <<"{", "\"id\":", Quote>> \o id["id"]
    \o <<Quote, ",", "\"sub-id\":", Quote, id["sub-id"], Quote,
         ",", "\"type\":", Quote, id["type"], Quote, "}">>

prop_id(id, property) == stringify_id(id) \o <<".", property>>

(* text.split(".")[0] *)
FirstDot(text) == CHOOSE i \in DOMAIN text :
                      text[i] = "." /\ \A j \in 1..(i - 1) : text[j] # "."
split_0(text) ==
    IF \E i \in DOMAIN text : text[i] = "." THEN SubSeq(text, 1, FirstDot(text) - 1)
    ELSE text

(* text.rpartition(".")[0], as Dash computes ctx.triggered_id *)
LastDot(text) == CHOOSE i \in DOMAIN text :
                     text[i] = "." /\ \A j \in (i + 1)..Len(text) : text[j] # "."
rpartition_0(text) ==
    IF \E i \in DOMAIN text : text[i] = "." THEN SubSeq(text, 1, LastDot(text) - 1)
    ELSE <<>>

(* json.loads of the text of a component id: Some(id), or None when the     *)
(* text is no JSON object and json.loads raises                             *)
json_loads(text) ==
    LET n == Len(text)
        IsIdText ==
            /\ n >= 15
            /\ SubSeq(text, 1, 3) = <<"{", "\"id\":", Quote>>
            /\ SubSeq(text, n - 11, n - 8) = <<Quote, ",", "\"sub-id\":", Quote>>
            /\ SubSeq(text, n - 6, n - 3) = <<Quote, ",", "\"type\":", Quote>>
            /\ SubSeq(text, n - 1, n) = <<Quote, "}">>
            /\ \A i \in 4..(n - 12) : text[i] # Quote
    IN  IF IsIdText
        THEN Some(ComponentId(text[n - 2], SubSeq(text, 4, n - 12), text[n - 7]))
        ELSE None

(* callback_context of a call: no trigger on the call Dash makes when the   *)
(* editor enters the layout, the changed property otherwise                 *)
NoTrigger == [triggered_id |-> None, prop_id |-> <<".">>]
Trigger(id, property) ==
    [triggered_id |-> json_loads(rpartition_0(prop_id(id, property))),
     prop_id |-> prop_id(id, property)]

(***************************************************************************)
(* The dependent-field callbacks.  A call returns no_update, raises, or    *)
(* returns the new children / data.                                        *)
(***************************************************************************)
no_update == [status |-> "no_update"]
Raised == [status |-> "raised"]
Returned(output, input_id) ==
    [status |-> "returned", output |-> output, input_id |-> input_id]

(* input_id = json.loads(ctx.triggered[0]["prop_id"].split(".")[0]) *)
decode_input_id(ctx) == json_loads(split_0(ctx.prop_id))

update_filter_x(value, ctx) ==
    LET column == data[value]
        input_id == decode_input_id(ctx)
    IN  IF ctx.triggered_id = None THEN no_update
        ELSE IF input_id = None THEN Raised
        ELSE Returned(generate_filter(column, input_id[1], None), input_id)

update_filter_y(value, ctx) ==
    LET column == data[value]
        input_id == decode_input_id(ctx)
    IN  IF ctx.triggered_id = None THEN no_update
        ELSE IF input_id = None THEN Raised
        ELSE Returned(generate_filter(column, input_id[1], None), input_id)

update_column_filter(column) == Choices(data[column])

(***************************************************************************)
(* A session of the settings drawer on one card of the start              *)
(* configuration: the editor is opened, Dash makes the first call of the   *)
(* callbacks whose Input entered the layout, the user selects columns and  *)
(* filter values, and the drawer is saved or closed.  Saving stores the    *)
(* value of every component {"type": "card-settings", "id": <card>,        *)
(* "sub-id": <key>} of the editor under its key and renders the card.      *)
(***************************************************************************)
StartIds == {<<"a">>, <<"a", ".", "b">>}

EditorTypes == {"HeatMap", "HightlightCard"}

Editor == editor[1]

EditedCard == cards[Index(Editor.card)]

FirstCalls(type) ==
    IF type = "HeatMap" THEN {"update_filter_x", "update_filter_y"}
    ELSE {"update_column_filter"}

OpenSettings(i) ==
    /\ Idle
    /\ editor = None
    /\ i \in DOMAIN cards
    /\ cards[i].type \in EditorTypes
    /\ sessions < MaxSessions
    /\ sessions' = sessions + 1
    /\ editor' = Some([card |-> cards[i].id, children |-> render_settings(cards[i]),
                       edits |-> 0])
    /\ queue' = FirstCalls(cards[i].type)
    /\ callback' = None
    /\ UNCHANGED <<gf, cards, views, nextId, forceColorScheme, patched_figures, rendered>>

(* the output of a dependent-filter callback replaces the children of the   *)
(* container; nothing changes when it returns no_update or raises           *)
WithOutput(children, place, result) ==
    IF result.status = "returned" THEN [children EXCEPT ![place] = result.output]
    ELSE children

FirstCallFilterX ==
    /\ "update_filter_x" \in queue
    /\ LET result == update_filter_x(Editor.children["x"].value, NoTrigger)
       IN  /\ editor' = Some([Editor EXCEPT !.children =
                                 WithOutput(@, "x-filter", result)])
           /\ callback' = Some([name |-> "update_filter_x", field |-> "x",
                                triggered |-> FALSE, result |-> result])
    /\ queue' = queue \ {"update_filter_x"}
    /\ UNCHANGED <<gf, cards, views, nextId, forceColorScheme, patched_figures, rendered,
                   sessions>>

FirstCallFilterY ==
    /\ "update_filter_y" \in queue
    /\ LET result == update_filter_y(Editor.children["y"].value, NoTrigger)
       IN  /\ editor' = Some([Editor EXCEPT !.children =
                                 WithOutput(@, "y-filter", result)])
           /\ callback' = Some([name |-> "update_filter_y", field |-> "y",
                                triggered |-> FALSE, result |-> result])
    /\ queue' = queue \ {"update_filter_y"}
    /\ UNCHANGED <<gf, cards, views, nextId, forceColorScheme, patched_figures, rendered,
                   sessions>>

FirstCallColumnFilter ==
    /\ "update_column_filter" \in queue
    /\ editor' = Some([Editor EXCEPT !.children["column-filter"].data =
                          update_column_filter(Editor.children["column"].value)])
    /\ callback' = Some([name |-> "update_column_filter", field |-> "column",
                         triggered |-> FALSE, result |-> no_update])
    /\ queue' = queue \ {"update_column_filter"}
    /\ UNCHANGED <<gf, cards, views, nextId, forceColorScheme, patched_figures, rendered,
                   sessions>>

Editing(type) ==
    Idle /\ editor # None /\ EditedCard.type = type /\ Editor.edits < MaxEdits

(* the user selects another column for x: the Select changes and            *)
(* update_filter_x runs, triggered by its "value"                           *)
SelectX(column) ==
    /\ Editing("HeatMap")
    /\ column # Editor.children["x"].value
    /\ column # Editor.children["y"].value
    /\ LET result == update_filter_x(column, Trigger(Editor.children["x"].id, "value"))
       IN  /\ editor' = Some([Editor EXCEPT !.children =
                                 WithOutput([@ EXCEPT !["x"].value = column],
                                            "x-filter", result)])
           /\ callback' = Some([name |-> "update_filter_x", field |-> "x",
                                triggered |-> TRUE, result |-> result])
    /\ UNCHANGED <<gf, cards, views, nextId, forceColorScheme, queue, patched_figures,
                   rendered, sessions>>

SelectY(column) ==
    /\ Editing("HeatMap")
    /\ column # Editor.children["y"].value
    /\ column # Editor.children["x"].value
    /\ LET result == update_filter_y(column, Trigger(Editor.children["y"].id, "value"))
       IN  /\ editor' = Some([Editor EXCEPT !.children =
                                 WithOutput([@ EXCEPT !["y"].value = column],
                                            "y-filter", result)])
           /\ callback' = Some([name |-> "update_filter_y", field |-> "y",
                                triggered |-> TRUE, result |-> result])
    /\ UNCHANGED <<gf, cards, views, nextId, forceColorScheme, queue, patched_figures,
                   rendered, sessions>>

(* the values the user can give a filter control: any boxes checked, any    *)
(* range within [min, max] at least minRange wide                           *)
Sublists(list) == { SortSet(set) : set \in SUBSET Range(list) }

Selectable(control) ==
    IF control.kind = "CheckboxGroup" THEN Sublists(control.children)
    ELSE IF control.kind = "RangeSlider"
    THEN { r \in { <<N(lo), N(hi)>> : lo \in control.min.v..control.max.v,
                                       hi \in control.min.v..control.max.v } :
             /\ r[1].v <= r[2].v
             /\ (r[2].v - r[1].v) * control.minRange.den >= control.minRange.num }
    ELSE {}

EditFilter(place) ==
    /\ Editing("HeatMap")
    /\ \E value \in Selectable(Editor.children[place]) :
          /\ value # Editor.children[place].value
          /\ editor' = Some([Editor EXCEPT !.edits = @ + 1,
                                            !.children[place].value = value])
    /\ callback' = None
    /\ UNCHANGED <<gf, cards, views, nextId, forceColorScheme, queue, patched_figures,
                   rendered, sessions>>

(* the user selects another column to summarize: update_column_filter       *)
(* returns the new data of the "column-filter" Select                       *)
SelectColumn(column) ==
    /\ Editing("HightlightCard")
    /\ column # Editor.children["column"].value
    /\ editor' = Some([Editor EXCEPT
                          !.edits = @ + 1,
                          !.children["column"].value = column,
                          !.children["column-filter"].data = update_column_filter(column)])
    /\ callback' = Some([name |-> "update_column_filter", field |-> "column",
                         triggered |-> TRUE, result |-> no_update])
    /\ UNCHANGED <<gf, cards, views, nextId, forceColorScheme, queue, patched_figures,
                   rendered, sessions>>

SelectColumnFilter ==
    /\ Editing("HightlightCard")
    /\ \E value \in Range(Editor.children["column-filter"].data) :
          /\ value # Editor.children["column-filter"].value
          /\ editor' = Some([Editor EXCEPT !.edits = @ + 1,
                                            !.children["column-filter"].value = value])
    /\ callback' = None
    /\ UNCHANGED <<gf, cards, views, nextId, forceColorScheme, queue, patched_figures,
                   rendered, sessions>>

(* State({"type": "card-settings", "id": ALL, "sub-id": ALL}, "value") *)
Places(e) ==
    { k \in DOMAIN e.children :
        /\ e.children[k].kind # "Text"
        /\ e.children[k].id["type"] = "card-settings"
        /\ e.children[k].id["id"] = e.card }

Collect(e) ==
    [key \in { e.children[k].id["sub-id"] : k \in Places(e) } |->
        e.children[CHOOSE k \in Places(e) : e.children[k].id["sub-id"] = key].value]

Save ==
    /\ editor # None
    /\ SaveSettings(Index(Editor.card), Collect(Editor))
    /\ editor' = None
    /\ callback' = None

CloseSettings ==
    /\ Idle
    /\ editor # None
    /\ editor' = None
    /\ callback' = None
    /\ UNCHANGED <<gf, cards, views, nextId, forceColorScheme, queue, patched_figures,
                   rendered, sessions>>

(* the settings a card of start_config is loaded with: none, or settings   *)
(* saved earlier                                                           *)
StartSettings(type) ==
    {<<>>} \cup
    (IF type = "HeatMap" THEN {("y" :> "gender") @@ ("y-filter" :> <<S(11)>>)}
     ELSE {("column" :> "minutesPerKM")})

InitEditor ==
    /\ gf = NoCall
    /\ \E id \in StartIds, type \in EditorTypes :
        \E settings \in StartSettings(type) :
          LET card == [id |-> id, type |-> type, settings |-> settings]
          IN  /\ cards = <<card>>
              /\ views = (id :> render(card))
              /\ queue = OnNewView(render(card))
              /\ rendered = Some(id)
    /\ nextId = 0
    /\ forceColorScheme = "light"
    /\ patched_figures = None
    /\ editor = None
    /\ callback = None
    /\ sessions = 0

NextEditor ==
    \/ \E i \in DOMAIN cards : OpenSettings(i)
    \/ FirstCallFilterX
    \/ FirstCallFilterY
    \/ FirstCallColumnFilter
    \/ \E column \in Range(ColumnNames) : SelectX(column)
    \/ \E column \in Range(ColumnNames) : SelectY(column)
    \/ EditFilter("x-filter")
    \/ EditFilter("y-filter")
    \/ \E column \in Range(ColumnNames) : SelectColumn(column)
    \/ SelectColumnFilter
    \/ Save
    \/ CloseSettings
    \/ UpdateColorScheme
    \/ ApplyPatches

SpecEditor == InitEditor /\ [][NextEditor]_vars

(***************************************************************************)
(* Properties of generate_filter (SpecFilter).                             *)
(***************************************************************************)
Called == gf.result # None
Result == gf.result[1]
IsCategorical(column) == column.dtype \in CategoricalDtypes
Present(column) == {x \in Range(column.values) : x.t # "na"}
Increasing(list) == \A i, j \in DOMAIN list : i < j => list[i].v < list[j].v
IsFullSortedSet(list, column) == Range(list) = Present(column) /\ Increasing(list)

(* C5: on a categorical column with no default_value, at most 300 distinct   *)
(* values give a multi-choice control whose choices and value are the full   *)
(* sorted set of the distinct non-missing values; more than 300 give the     *)
(* notice and no control.                                                    *)
C5_CategoricalDefault ==
    (Called /\ IsCategorical(gf.column) /\ gf.default_value = None) =>
        IF Cardinality(Present(gf.column)) <= TooManyUnique
        THEN /\ Result.kind = "CheckboxGroup"
             /\ IsFullSortedSet(Result.children, gf.column)
             /\ IsFullSortedSet(Result.value, gf.column)
        ELSE Result.kind = "Text"

(* exactly 300 distinct values, with a duplicate and a missing value: a control *)
C5_Witness ==
    /\ Called /\ IsCategorical(gf.column) /\ gf.default_value = None
    /\ Cardinality(Present(gf.column)) = TooManyUnique
    /\ Len(gf.column.values) > TooManyUnique + 1
    /\ Result.kind = "CheckboxGroup"
    /\ Len(Result.value) = TooManyUnique

(* C6: on a numeric column with no default_value the control is a range      *)
(* slider bounded by the column's min and max, its value is [min, max] and   *)
(* its minimum span is (max - min) / 100.                                    *)
C6_NumericDefault ==
    (Called /\ ~IsCategorical(gf.column) /\ gf.default_value = None
            /\ Present(gf.column) # {}) =>
        /\ Result.kind = "RangeSlider"
        /\ Result.min \in Present(gf.column)
        /\ Result.max \in Present(gf.column)
        /\ \A x \in Present(gf.column) : Result.min.v <= x.v /\ x.v <= Result.max.v
        /\ Result.value = <<Result.min, Result.max>>
        /\ Result.minRange.den > 0
        /\ Result.minRange.num * 100 = (Result.max.v - Result.min.v) * Result.minRange.den

(* a numeric column whose values are not in increasing order *)
C6_Witness ==
    /\ Called /\ ~IsCategorical(gf.column) /\ gf.default_value = None
    /\ Len(gf.column.values) > 1
    /\ gf.column.values[1] = N(2)
    /\ Result.kind = "RangeSlider"
    /\ Result.min.v = 1 /\ Result.max.v = 2

(* C7: whenever a default_value is supplied, the control's value is that     *)
(* default_value.                                                            *)
C7_DefaultValueShown ==
    (Called /\ gf.default_value # None /\ Result.kind # "Text") =>
        Result.value = gf.default_value[1]

(* C8: when a numeric column has min = max, no interactive range slider with *)
(* a zero minimum span is emitted.                                           *)
C8_NoZeroSpanSlider ==
    (Called /\ ~IsCategorical(gf.column) /\ Present(gf.column) # {}
            /\ min(dropna(gf.column.values)) = max(dropna(gf.column.values))) =>
        ~(Result.kind = "RangeSlider" /\ ~Result.disabled /\ Result.minRange.num = 0)

(***************************************************************************)
(* Properties of the theme dispatch (Spec).                                *)
(***************************************************************************)
ChartTypes == {"RacingCard", "HistogramCard", "HeatMap", "ViolinCard"}
LiveCharts == SelectSeq(cards, LAMBDA c : c.type \in ChartTypes)
Dispatched == patched_figures # None
Out == patched_figures[1].out

(* C1: a theme dispatch emits exactly one patch per chart key live at       *)
(* dispatch time, in the order of those keys: the keys are the figure ids   *)
(* of the live cards that have a chart, removed cards and Highlight cards   *)
(* get none, and with no live chart the result is empty.                    *)
C1_OnePatchPerLiveChart ==
    Dispatched =>
        /\ Len(Out) = Len(LiveCharts)
        /\ Len(patched_figures[1].figure_ids) = Len(LiveCharts)
        /\ \A k \in DOMAIN Out :
              /\ patched_figures[1].figure_ids[k] = FigureId(LiveCharts[k].id)
              /\ Out[k].value = Template(forceColorScheme)
        /\ (LiveCharts = <<>> => Out = <<>>)

(* one patch while a chart and a Highlight card are live and a card has     *)
(* been removed                                                             *)
C1_Witness ==
    /\ Dispatched
    /\ Len(Out) = 1
    /\ Len(cards) = 2
    /\ \E i \in DOMAIN cards : cards[i].type = "HightlightCard"
    /\ nextId > Len(cards)

(* C2: a theme toggle and the patches applied for it change only            *)
(* layout.template of a rendered chart: its traces, every other layout      *)
(* field, the rest of the card and every settings map stay as they were.    *)
ThemeStep ==
    \/ forceColorScheme' # forceColorScheme
    \/ patched_figures' # patched_figures

SameButTemplate(v, w) ==
    IF v.graph = None THEN w = v
    ELSE /\ w.graph # None
         /\ w.graph[1].id = v.graph[1].id
         /\ w.graph[1].figure.data = v.graph[1].figure.data
         /\ DOMAIN w.graph[1].figure = DOMAIN v.graph[1].figure
         /\ DOMAIN w.graph[1].figure.layout = DOMAIN v.graph[1].figure.layout
         /\ w.graph[1].figure.layout.margin = v.graph[1].figure.layout.margin
         /\ w.title = v.title /\ w.description = v.description

C2_OnlyTemplateChanges ==
    [][ThemeStep =>
          /\ cards' = cards
          /\ DOMAIN views' = DOMAIN views
          /\ \A id \in DOMAIN views : SameButTemplate(views[id], views'[id])]_vars

(* a patched chart of a card with saved settings *)
C2_Witness ==
    \E i \in DOMAIN cards :
        /\ cards[i].settings # <<>>
        /\ views[cards[i].id].graph # None
        /\ views[cards[i].id].graph[1].figure.layout.template = "mantine_dark"
        /\ views[cards[i].id].graph[1].figure.layout.margin.t = 15
        /\ patched_figures = None /\ rendered = None

(* C3: a chart just produced by render has the template of the theme in     *)
(* force.                                                                   *)
C3_RenderUsesCurrentTheme ==
    (rendered # None /\ views[rendered[1]].graph # None) =>
        views[rendered[1]].graph[1].figure.layout.template = Template(forceColorScheme)

(***************************************************************************)
(* Properties of the settings editor (SpecEditor).                         *)
(***************************************************************************)
Axes == {"x", "y"}
FilterOf(axis) == axis \o "-filter"
DefaultColumn(axis) == IF axis = "x" THEN "minutesPerKM" ELSE "ageBand"

HeatMapEditor(e) == e # None /\ cards[Index(e[1].card)].type = "HeatMap"

(* the column of an axis changed in the open editor *)
ColumnChanged(axis) ==
    /\ HeatMapEditor(editor) /\ editor' # None
    /\ editor'[1].children[axis].value # editor[1].children[axis].value

(* the filter control of the axis shows the whole of the selected column *)
Unfiltered(e, axis) ==
    LET column == data[e.children[axis].value]
        control == e.children[FilterOf(axis)]
    IN  IF IsCategorical(column)
        THEN /\ control.kind = "CheckboxGroup"
             /\ IsFullSortedSet(control.children, column)
             /\ IsFullSortedSet(control.value, column)
        ELSE /\ control.kind = "RangeSlider"
             /\ control.value = <<control.min, control.max>>
             /\ control.min \in Present(column) /\ control.max \in Present(column)
             /\ \A x \in Present(column) : control.min.v <= x.v /\ x.v <= control.max.v

(* a stored selection is one of the column it is stored with *)
SelectionOf(column, selection) ==
    IF IsCategorical(column) THEN Range(selection) \subseteq Present(column)
    ELSE /\ Len(selection) = 2
         /\ \A k \in 1..2 : selection[k].t = "n"
         /\ \A k \in 1..2 : \E lo, hi \in Present(column) :
                                lo.v <= selection[k].v /\ selection[k].v <= hi.v

NoStaleSelection ==
    \A i \in DOMAIN cards : \A axis \in Axes :
        (cards[i].type = "HeatMap" /\ FilterOf(axis) \in DOMAIN cards[i].settings) =>
            SelectionOf(data[Get(cards[i].settings, axis, DefaultColumn(axis))],
                        cards[i].settings[FilterOf(axis)])

(* C4: changing the column of an axis of a HeatMap editor regenerates the    *)
(* filter control with the full distinct set / the full [min, max] range of  *)
(* the new column, and no card is rendered from a selection made for         *)
(* another column.                                                           *)
C4_ColumnChangeResetsFilter ==
    [][/\ \A axis \in Axes : ColumnChanged(axis) => Unfiltered(editor'[1], axis)
       /\ NoStaleSelection']_vars

(* C9: in an open Highlight editor the choices of "column-filter" are the    *)
(* distinct values of the column selected in "column".                       *)
C9_ChoicesOfSelectedColumn ==
    (editor # None /\ EditedCard.type = "HightlightCard") =>
        Range(Editor.children["column-filter"].data) =
            { str(x) : x \in Range(data[Editor.children["column"].value].values) }

(* C10: the id decoded by a triggered dependent-filter callback is the id    *)
(* render_settings gave the column Select, and the regenerated control is    *)
(* addressed to the same card under "<field>-filter".                        *)
C10_EventKeyRoundTrip ==
    (callback # None /\ callback[1].triggered
                     /\ callback[1].name \in {"update_filter_x", "update_filter_y"}) =>
        /\ callback[1].result.status = "returned"
        /\ callback[1].result.input_id =
              Some(SettingsId(Editor.card, callback[1].field))
        /\ Editor.children[FilterOf(callback[1].field)].id =
              SettingsId(Editor.card, FilterOf(callback[1].field))

(***************************************************************************)
(* Properties of render (Spec).                                            *)
(***************************************************************************)
Traces(view) == view.graph[1].figure.data

(* what the view of a card shows for each settings key *)
Shown(type, view) ==
    CASE type = "RacingCard" ->
           [title |-> view.title, description |-> view.description,
            racers |-> Traces(view).racers]
      [] type = "HistogramCard" ->
           [column |-> Traces(view).x, color |-> Traces(view).color,
            bins |-> Traces(view).nbins, title |-> view.title,
            description |-> view.description]
      [] type = "HeatMap" ->
           [x |-> Traces(view).x, y |-> Traces(view).y,
            nbinsx |-> Traces(view).nbinsx, nbinsy |-> Traces(view).nbinsy,
            title |-> view.title, description |-> view.description]
      [] type = "ViolinCard" ->
           [x |-> Traces(view).x, y |-> Traces(view).y, title |-> view.title,
            description |-> view.description]
      [] type = "HightlightCard" ->
           [column |-> view.highlight_value.column,
            aggregation |-> view.highlight_value.agg,
            suffix |-> view.suffix, icon |-> view.icon]

(* the fallback of each settings key in the render methods; the fallback   *)
(* description is a text of the values shown                               *)
Fallback(type, shown) ==
    CASE type = "RacingCard" ->
           [title |-> "Marathon chart", description |-> "Groups of people racing",
            racers |-> <<"Average Person">>]
      [] type = "HistogramCard" ->
           [column |-> "overallTimeMinutes", color |-> "None", bins |-> 20,
            title |-> "Histogram",
            description |-> "Histogram of " \o shown.column \o " coloured by "
                               \o shown.color]
      [] type = "HeatMap" ->
           [x |-> "minutesPerKM", y |-> "ageBand", nbinsx |-> 20, nbinsy |-> 20,
            title |-> "Heatmap",
            description |-> "Heatmap of " \o shown.x \o " vs " \o shown.y]
      [] type = "ViolinCard" ->
           [x |-> "ageBand", y |-> "overallTimeMinutes", title |-> "Violin plot",
            description |-> "Violin plot of " \o shown.y \o " by " \o shown.x]
      [] type = "HightlightCard" ->
           [column |-> "gender", aggregation |-> "count",
            suffix |-> "Number of participants", icon |-> "mdi:star"]

(* C11: for every card type and every settings map, the empty one          *)
(* included, render does not fail and shows, for each key missing from the *)
(* map, the fallback of that key and, for each key present, its value; a   *)
(* Histogram card with no settings shows overallTimeMinutes in 20 bins.    *)
C11_RenderFallsBackOnMissingKeys ==
    \A i \in DOMAIN cards :
        LET type == cards[i].type
            settings == cards[i].settings
            view == views[cards[i].id]
        IN  /\ view.kind = "Card"
            /\ \A key \in DOMAIN Shown(type, view) :
                  Shown(type, view)[key] =
                      IF key \in DOMAIN settings THEN settings[key]
                      ELSE Fallback(type, Shown(type, view))[key]
            /\ (type = "HistogramCard" /\ settings = <<>>) =>
                  /\ Traces(view).x = "overallTimeMinutes"
                  /\ Traces(view).nbins = 20

(* a Histogram card just rendered from the empty settings map, beside a    *)
(* card rendered from a map that has one key                               *)
C11_Witness ==
    /\ rendered # None
    /\ \E i \in DOMAIN cards :
          /\ cards[i].id = rendered[1]
          /\ cards[i].type = "HistogramCard" /\ cards[i].settings = <<>>
          /\ Traces(views[cards[i].id]).nbins = 20
    /\ \E j \in DOMAIN cards : cards[j].settings # <<>>

(***************************************************************************)
(* Properties of HeatMap.render under the settings editor (SpecEditor).    *)
(***************************************************************************)
IsRange(selection) ==
    /\ Len(selection) = 2
    /\ selection[1].t = "n" /\ selection[2].t = "n"

(* a stored selection can be tested against the column of its axis *)
Testable(settings, axis) ==
    FilterOf(axis) \in DOMAIN settings =>
        \/ IsCategorical(data[Get(settings, axis, DefaultColumn(axis))])
        \/ IsRange(settings[FilterOf(axis)])

(* row r passes the filter of an axis *)
Satisfies(settings, axis, r) ==
    LET column == data[Get(settings, axis, DefaultColumn(axis))]
        value == column.values[r]
    IN  IF FilterOf(axis) \notin DOMAIN settings THEN TRUE
        ELSE IF IsCategorical(column)
        THEN \E k \in DOMAIN settings[FilterOf(axis)] :
                 settings[FilterOf(axis)][k] = value
        ELSE /\ value # NA
             /\ settings[FilterOf(axis)][1].v <= value.v
             /\ value.v <= settings[FilterOf(axis)][2].v

Summarised(settings) == data[Get(settings, "column", "gender")]

(* the texts the editor offers for a column *)
Offered(column) == { str(value) : value \in Range(column.values) }

(* C13: when a "column-filter" value offered by the editor for the         *)
(* summarised column is stored, HightlightCard.render aggregates exactly   *)
(* the rows whose value in that column is the chosen one, and these are    *)
(* not zero rows; for every column, the numeric ones included.             *)
C13_OfferedValueSelectsItsRows ==
    \A i \in DOMAIN cards :
        LET settings == cards[i].settings IN
        (/\ cards[i].type = "HightlightCard"
         /\ "column-filter" \in DOMAIN settings
         /\ settings["column-filter"] \in Offered(Summarised(settings))) =>
            /\ views[cards[i].id].highlight_value.rows =
                  { r \in Rows :
                      str(Summarised(settings).values[r]) = settings["column-filter"] }
            /\ views[cards[i].id].highlight_value.rows # {}

(* the drawer is left, by Save or by closing, with no control edited *)
LeftUnedited == editor # None /\ Editor.edits = 0 /\ editor' = None

(* C14: the editor shows, for each missing key, the fallback render uses   *)
(* for it, so that opening the editor of a card and saving it with no      *)
(* control edited leaves what the card renders unchanged.                  *)
C14_SaveUneditedKeepsRender ==
    [][LeftUnedited => views'[Editor.card] = views[Editor.card]]_vars

====
